---- MODULE Spec2Model ----
(***************************************************************************)
(* gin-metrics: a gin middleware that updates a list of Prometheus         *)
(* metrics after every request, serves them on an export route and,        *)
(* optionally, forwards them to a push gateway from a ticker goroutine.    *)
(*                                                                         *)
(* The model follows collector.go (New, HandlerFunc, fetchMetrics,         *)
(* sendToPushGateway, startPush, registerMetrics), option.go (the With*    *)
(* options) and the metric file (Metric, Exec, Collector, NewMetric, the   *)
(* built-in catalog).                                                      *)
(***************************************************************************)
EXTENDS Integers, Sequences, FiniteSets, TLC

\* ------------------------------------------------------------------ bounds
MaxMetrics == 2      \* metrics appended through WithMetrics
MaxRequests == 2     \* requests dispatched through the middleware
MaxClock == 2        \* values of the wall clock (time.Now)
MaxTicks == 3        \* ticks fired by the push ticker
MaxCalls == 2        \* Collector calls made by each API caller thread
MaxContentLength == 2 \* largest Content-Length of a measured request

\* --------------------------------------------------------------- constants
Nil == 0                              \* a nil prometheus.Collector interface
NoThread == "none"
DefaultJobName == "gin"               \* collector.go:21
DefaultMetricsPath == <<"metrics">>   \* collector.go:22 ("metrics", no slash)
DefaultLoggerTag == "gin-metrics"     \* collector.go:36
InstanceName == "host"                \* collector.go:27,37 (os.Hostname)

\* A path is a sequence of tokens, "/" being the separator.
MetricsPaths == {<<"metrics">>, <<"/", "metrics">>, <<"/", "stats">>}
\* net/http hands a server only request paths that begin with "/".
RequestPaths == {<<"/">>, <<"/", "metrics">>, <<"/", "stats">>}
JobNames == {"gin", "api"}
LoggerTags == {"gin-metrics", "custom"}
\* "http://[::1" is a URL that net/url refuses to parse (missing ']').
BadURL == "http://[::1"
PushURLs == {"", "http://pgw:9091", BadURL}
LocalURLs == {"", "http://127.0.0.1/metrics"}

\* --------------------------------------------------------- metric catalog
SupportedKinds ==
  {"counter_vec", "counter", "gauge_vec", "gauge",
   "histogram_vec", "histogram", "summary_vec", "summary"}
VecKinds == {"counter_vec", "gauge_vec", "histogram_vec", "summary_vec"}

RequestLabels == <<"code", "method", "handler", "host", "url">>

\* Metric values.  asserts: the type ExecFn asserts its collector to;
\* nvals: the number of label values ExecFn passes to WithLabelValues;
\* slow: the threshold of SlowRequestTotal (-1: unconditional update).
RequestTotalDef ==
  [Name |-> "requests_total", Type |-> "counter_vec", Args |-> RequestLabels,
   asserts |-> "*CounterVec", nvals |-> 5, slow |-> -1]
SlowRequestTotalDef ==
  [Name |-> "slow_request_total", Type |-> "counter", Args |-> <<>>,
   asserts |-> "Counter", nvals |-> 0, slow |-> 1]
\* A user Metric with a Type outside the eight kinds.
UnknownKindDef ==
  [Name |-> "test_metric", Type |-> "meter", Args |-> <<>>,
   asserts |-> "Counter", nvals |-> 0, slow |-> -1]
\* A user Metric of a vector kind declared without label names.
EmptyVecDef ==
  [Name |-> "labelless_total", Type |-> "counter_vec", Args |-> <<>>,
   asserts |-> "*CounterVec", nvals |-> 5, slow |-> -1]
\* A user Metric of Type "counter" whose ExecFn treats it as a counter vector.
MismatchDef ==
  [Name |-> "mismatch_total", Type |-> "counter", Args |-> <<>>,
   asserts |-> "*CounterVec", nvals |-> 5, slow |-> -1]

MetricIds ==
  {"RequestTotal", "RequestTotalWithMapper", "SlowRequestTotal",
   "UnknownKind", "EmptyVec", "Mismatch"}

\* The Metric values the push specification and the concurrent callers use.
FewMetricIds == {"RequestTotal", "UnknownKind"}

MetricDef(m) ==
  CASE m = "RequestTotal" -> RequestTotalDef
    [] m = "RequestTotalWithMapper" -> RequestTotalDef
    [] m = "SlowRequestTotal" -> SlowRequestTotalDef
    [] m = "UnknownKind" -> UnknownKindDef
    [] m = "EmptyVec" -> EmptyVecDef
    [] m = "Mismatch" -> MismatchDef

\* ------------------------------------------------------------------ state
VARIABLES
  \* Prometheus struct (collector.go:70-110)
  router, exportRouter, accounts, metricsBasicAuth, PushGatewayURL,
  metrics, metricsPath, jobName, LoggerTag, MetricsURL,
  \* New: position, index of registerMetrics' loop, router state
  pc, regIdx, running, middleware, exportRoute,
  \* Metric struct (collector, once) per Metric value, and the heap
  collector, onceDone, onceMu, newMetricCalls, heap,
  \* prometheus.DefaultRegisterer and the logger
  registry, logged,
  \* threads calling Metric.Collector
  tpc, tm, tjob, tret, rets, calls,
  \* the request in flight through HandlerFunc
  req, execs, reqCount, now,
  \* computeApproximateRequestSize: its argument r, its local s, its position
  \* and the header names its range loop has not visited yet
  rq, sz, spc, hdrLeft,
  \* push goroutine
  pushTasks, ppc, tick, tickNo, body, lastFetch, lastPost, fetchCount,
  postCount, postedThisTick, wokeAt,
  \* the process
  crashed

cfgVars ==
  <<router, exportRouter, accounts, metricsBasicAuth, PushGatewayURL,
    metrics, metricsPath, jobName, LoggerTag, MetricsURL>>
newVars == <<pc, regIdx, running, middleware, exportRoute>>
metricVars == <<collector, onceDone, onceMu, newMetricCalls, heap>>
libVars == <<registry, logged>>
threadVars == <<tpc, tm, tjob, tret, rets, calls>>
sizeVars == <<rq, sz, spc, hdrLeft>>
reqVars == <<req, execs, reqCount, now, sizeVars>>
pushVars ==
  <<pushTasks, ppc, tick, tickNo, body, lastFetch, lastPost, fetchCount,
    postCount, postedThisTick, wokeAt>>
vars ==
  <<cfgVars, newVars, metricVars, libVars, threadVars, reqVars, pushVars,
    crashed>>

Callers == {"t1", "t2", "t3"}
Threads == {"main"} \cup Callers

\* http.Request values handed to computeApproximateRequestSize: URL (nil or
\* a path), Method, Proto, Header (names to lists of values), Host and
\* ContentLength (-1 is net/http's "unknown"; a hand-built request can hold
\* any number).
NoHeader == [n \in {} |-> <<>>]
SizeHeaders ==
  {NoHeader,
   [n \in {"Accept"} |-> <<"*/*">>],
   [n \in {"Accept", "X-Id"} |-> IF n = "Accept" THEN <<"a", "bc">> ELSE <<"7">>]}
SizeRequests ==
  [urlNil : BOOLEAN, path : {"/a", "/hello"}, method : {"GET", "POST"},
   proto : {"HTTP/1.1"}, header : SizeHeaders, host : {"h", ""},
   contentLength : (-2)..MaxContentLength]
ExampleRequest ==
  [urlNil |-> FALSE, path |-> "/a", method |-> "GET", proto |-> "HTTP/1.1",
   header |-> NoHeader, host |-> "h", contentLength |-> -1]

NoRequest == [pc |-> "none", path |-> <<>>, start |-> 0, idx |-> 0,
              handled |-> FALSE]

\* The state when New has built the Prometheus value (collector.go:27-38)
\* and no option has been applied yet.
Init ==
  /\ router = FALSE /\ exportRouter = FALSE /\ accounts = FALSE
  /\ metricsBasicAuth = "" /\ PushGatewayURL = ""
  /\ metrics = <<>> /\ metricsPath = DefaultMetricsPath
  /\ jobName = DefaultJobName /\ LoggerTag = DefaultLoggerTag
  /\ MetricsURL = ""
  /\ pc = "opts" /\ regIdx = 1 /\ running = FALSE
  /\ middleware = FALSE /\ exportRoute = <<>>
  /\ collector = [m \in MetricIds |-> Nil]
  /\ onceDone = [m \in MetricIds |-> FALSE]
  /\ onceMu = [m \in MetricIds |-> NoThread]
  /\ newMetricCalls = [m \in MetricIds |-> 0]
  /\ heap = <<>>
  /\ registry = {} /\ logged = {}
  /\ tpc = [t \in Threads |-> "idle"]
  /\ tm = [t \in Threads |-> "RequestTotal"]
  /\ tjob = [t \in Threads |-> DefaultJobName]
  /\ tret = [t \in Threads |-> Nil]
  /\ rets = [m \in MetricIds |-> {}]
  /\ calls = [t \in Threads |-> 0]
  /\ req = NoRequest /\ execs = <<>> /\ reqCount = 0 /\ now = 0
  /\ rq = ExampleRequest /\ sz = 0 /\ spc = "idle" /\ hdrLeft = {}
  /\ pushTasks = 0 /\ ppc = "off" /\ tick = 0 /\ tickNo = 0
  /\ body = "" /\ lastFetch = "none" /\ lastPost = "none"
  /\ fetchCount = 0 /\ postCount = 0 /\ postedThisTick = FALSE
  /\ wokeAt = 0
  /\ crashed = FALSE

\* The program started the gin engine (r.Run) before it calls New: requests
\* are served while New executes.
EngineRun ==
  /\ pc = "opts" /\ ~crashed
  /\ ~running
  /\ running' = TRUE
  /\ UNCHANGED <<pc, regIdx, middleware, exportRoute>>
  /\ UNCHANGED <<cfgVars, metricVars, libVars, threadVars, reqVars, pushVars,
                 crashed>>

\* ------------------------------------------------------ options (option.go)
WithRouter ==
  /\ pc = "opts" /\ ~crashed
  /\ router' = TRUE
  /\ UNCHANGED <<exportRouter, accounts, metricsBasicAuth, PushGatewayURL,
                 metrics, metricsPath, jobName, LoggerTag, MetricsURL>>
  /\ UNCHANGED <<newVars, metricVars, libVars, threadVars, reqVars,
                 pushVars, crashed>>

WithExportRouter ==
  /\ pc = "opts" /\ ~crashed
  /\ exportRouter' = TRUE
  /\ UNCHANGED <<router, accounts, metricsBasicAuth, PushGatewayURL,
                 metrics, metricsPath, jobName, LoggerTag, MetricsURL>>
  /\ UNCHANGED <<newVars, metricVars, libVars, threadVars, reqVars,
                 pushVars, crashed>>

WithMetricsPath(s) ==
  /\ pc = "opts" /\ ~crashed
  /\ metricsPath' = s
  /\ UNCHANGED <<router, exportRouter, accounts, metricsBasicAuth,
                 PushGatewayURL, metrics, jobName, LoggerTag, MetricsURL>>
  /\ UNCHANGED <<newVars, metricVars, libVars, threadVars, reqVars,
                 pushVars, crashed>>

WithMetrics(m) ==
  /\ pc = "opts" /\ ~crashed
  /\ Len(metrics) < MaxMetrics
  /\ metrics' = Append(metrics, m)
  /\ UNCHANGED <<router, exportRouter, accounts, metricsBasicAuth,
                 PushGatewayURL, metricsPath, jobName, LoggerTag, MetricsURL>>
  /\ UNCHANGED <<newVars, metricVars, libVars, threadVars, reqVars,
                 pushVars, crashed>>

WithPushGatewayUrl(pgw) ==
  /\ pc = "opts" /\ ~crashed
  /\ PushGatewayURL' = pgw
  /\ UNCHANGED <<router, exportRouter, accounts, metricsBasicAuth,
                 metrics, metricsPath, jobName, LoggerTag, MetricsURL>>
  /\ UNCHANGED <<newVars, metricVars, libVars, threadVars, reqVars,
                 pushVars, crashed>>

WithPushPushGatewayURL(url) ==
  /\ pc = "opts" /\ ~crashed
  /\ PushGatewayURL' = url
  /\ UNCHANGED <<router, exportRouter, accounts, metricsBasicAuth,
                 metrics, metricsPath, jobName, LoggerTag, MetricsURL>>
  /\ UNCHANGED <<newVars, metricVars, libVars, threadVars, reqVars,
                 pushVars, crashed>>

WithExportAccounts ==
  /\ pc = "opts" /\ ~crashed
  /\ accounts' = TRUE
  /\ UNCHANGED <<router, exportRouter, metricsBasicAuth, PushGatewayURL,
                 metrics, metricsPath, jobName, LoggerTag, MetricsURL>>
  /\ UNCHANGED <<newVars, metricVars, libVars, threadVars, reqVars,
                 pushVars, crashed>>

WithJobName(j) ==
  /\ pc = "opts" /\ ~crashed
  /\ jobName' = j
  /\ UNCHANGED <<router, exportRouter, accounts, metricsBasicAuth,
                 PushGatewayURL, metrics, metricsPath, LoggerTag, MetricsURL>>
  /\ UNCHANGED <<newVars, metricVars, libVars, threadVars, reqVars,
                 pushVars, crashed>>

WithLoggerTag(tag) ==
  /\ pc = "opts" /\ ~crashed
  /\ LoggerTag' = tag
  /\ UNCHANGED <<router, exportRouter, accounts, metricsBasicAuth,
                 PushGatewayURL, metrics, metricsPath, jobName, MetricsURL>>
  /\ UNCHANGED <<newVars, metricVars, libVars, threadVars, reqVars,
                 pushVars, crashed>>

WithMetricsURL(url) ==
  /\ pc = "opts" /\ ~crashed
  /\ MetricsURL' = url
  /\ UNCHANGED <<router, exportRouter, accounts, metricsBasicAuth,
                 PushGatewayURL, metrics, metricsPath, jobName, LoggerTag>>
  /\ UNCHANGED <<newVars, metricVars, libVars, threadVars, reqVars,
                 pushVars, crashed>>

\* --------------------------------------------------- helpers (libraries)
\* gin's RouterGroup.GET serves a relative path joined to the group's base
\* path "/": "metrics" and "/metrics" are both served on "/metrics".
JoinPaths(rel) ==
  IF rel # <<>> /\ Head(rel) = "/" THEN rel ELSE <<"/">> \o rel

\* net/url parses every URL of the model but the ones built on BadURL.
URLParses(parts) == \A i \in 1..Len(parts) : parts[i] # BadURL

\* GetPushGatewayURL (collector.go:138-140), as the parts it concatenates.
GetPushGatewayURL ==
  <<PushGatewayURL, "/metrics/job/", jobName, "/instance/", InstanceName>>

\* PushConfigured with the test of the URL left out: startPush always runs.
PushAlways == TRUE

\* The guard of New's call of startPush (collector.go:62).
PushConfigured == PushGatewayURL # ""

\* ---------------------------------------------------- NewMetric (factory)
NewCollector(kind, m, subsystem, labels) ==
  [kind |-> kind, subsystem |-> subsystem, name |-> MetricDef(m).Name,
   labels |-> labels, value |-> 0]

\* The zero value of "var metric prometheus.Collector" (part_000:119).
NoCollector ==
  [kind |-> "nil", subsystem |-> "", name |-> "", labels |-> <<>>,
   value |-> 0]

\* NewMetric: the collector built for Metric m, or the nil collector when
\* m.Type matches no case of the switch.
NewMetric(m, subsystem) ==
  LET d == MetricDef(m) IN
  CASE d.Type = "counter_vec" -> NewCollector("counter_vec", m, subsystem, d.Args)
    [] d.Type = "counter" -> NewCollector("counter", m, subsystem, <<>>)
    [] d.Type = "gauge_vec" -> NewCollector("gauge_vec", m, subsystem, d.Args)
    [] d.Type = "gauge" -> NewCollector("gauge", m, subsystem, <<>>)
    [] d.Type = "histogram_vec" -> NewCollector("histogram_vec", m, subsystem, d.Args)
    [] d.Type = "histogram" -> NewCollector("histogram", m, subsystem, <<>>)
    [] d.Type = "summary_vec" -> NewCollector("summary_vec", m, subsystem, d.Args)
    [] d.Type = "summary" -> NewCollector("summary", m, subsystem, <<>>)
    [] OTHER -> NoCollector

\* ------------------------------------------- Metric.Collector (sync.Once)
\* A thread enters m.Collector(job): the next step is once.Do.
BeginCollector(t, m, job) ==
  /\ tpc' = [tpc EXCEPT ![t] = "once"]
  /\ tm' = [tm EXCEPT ![t] = m]
  /\ tjob' = [tjob EXCEPT ![t] = job]

\* MutexFree as a plain test of the done flag, without mutual exclusion.
MutexIgnored(m) == onceDone[m] = FALSE

\* The mutex of a sync.Once is free.
MutexFree(m) == onceMu[m] = NoThread

\* once.Do, fast path: a Once that is done runs nothing.
OnceDo(t) ==
  /\ tpc[t] = "once" /\ ~crashed
  /\ tpc' = [tpc EXCEPT ![t] = IF onceDone[tm[t]] THEN "ret" ELSE "lock"]
  /\ UNCHANGED <<tm, tjob, tret, rets, calls>>
  /\ UNCHANGED <<cfgVars, newVars, metricVars, libVars, reqVars, pushVars,
                 crashed>>

\* once.Do, slow path: take the mutex of the Once.
OnceLock(t) ==
  /\ tpc[t] = "lock" /\ ~crashed
  /\ MutexFree(tm[t])
  /\ onceMu' = [onceMu EXCEPT ![tm[t]] = t]
  /\ tpc' = [tpc EXCEPT ![t] = "slow"]
  /\ UNCHANGED <<tm, tjob, tret, rets, calls>>
  /\ UNCHANGED <<collector, onceDone, newMetricCalls, heap>>
  /\ UNCHANGED <<cfgVars, newVars, libVars, reqVars, pushVars, crashed>>

\* once.Do, under the mutex: run f if the Once is not done.  f is
\* m.collector = NewMetric(m, jobName) (part_000:35-37).
OnceRun(t) ==
  /\ tpc[t] = "slow" /\ ~crashed
  /\ LET m == tm[t]
         c == NewMetric(m, tjob[t]) IN
     IF ~onceDone[m]
     THEN /\ newMetricCalls' = [newMetricCalls EXCEPT ![m] = @ + 1]
          /\ IF c.kind = "nil"
             THEN /\ collector' = [collector EXCEPT ![m] = Nil]
                  /\ heap' = heap
             ELSE /\ heap' = Append(heap, c)
                  /\ collector' = [collector EXCEPT ![m] = Len(heap) + 1]
          /\ tpc' = [tpc EXCEPT ![t] = "store"]
          /\ UNCHANGED <<onceMu, onceDone>>
     ELSE /\ onceMu' = [onceMu EXCEPT ![m] = NoThread]
          /\ tpc' = [tpc EXCEPT ![t] = "ret"]
          /\ UNCHANGED <<collector, onceDone, newMetricCalls, heap>>
  /\ UNCHANGED <<tm, tjob, tret, rets, calls>>
  /\ UNCHANGED <<cfgVars, newVars, libVars, reqVars, pushVars, crashed>>

\* once.Do, after f: mark the Once done and release the mutex.
OnceStore(t) ==
  /\ tpc[t] = "store" /\ ~crashed
  /\ onceDone' = [onceDone EXCEPT ![tm[t]] = TRUE]
  /\ onceMu' = [onceMu EXCEPT ![tm[t]] = NoThread]
  /\ tpc' = [tpc EXCEPT ![t] = "ret"]
  /\ UNCHANGED <<tm, tjob, tret, rets, calls>>
  /\ UNCHANGED <<collector, newMetricCalls, heap>>
  /\ UNCHANGED <<cfgVars, newVars, libVars, reqVars, pushVars, crashed>>

\* return m.collector (part_000:38).
CollectorReturn(t) ==
  /\ tpc[t] = "ret" /\ ~crashed
  /\ tret' = [tret EXCEPT ![t] = collector[tm[t]]]
  /\ rets' = [rets EXCEPT ![tm[t]] = @ \cup {collector[tm[t]]}]
  /\ tpc' = [tpc EXCEPT ![t] = IF t = "main" THEN "got" ELSE "idle"]
  /\ UNCHANGED <<tm, tjob, calls>>
  /\ UNCHANGED <<cfgVars, newVars, metricVars, libVars, reqVars, pushVars,
                 crashed>>

\* A caller of the package (another instrumentation instance, a test)
\* calls Collector(job) on a Metric value.
CallCollector(t, m, job) ==
  /\ t \in Callers /\ tpc[t] = "idle" /\ ~crashed
  /\ calls[t] < MaxCalls
  /\ calls' = [calls EXCEPT ![t] = @ + 1]
  /\ BeginCollector(t, m, job)
  /\ UNCHANGED <<tret, rets>>
  /\ UNCHANGED <<cfgVars, newVars, metricVars, libVars, reqVars, pushVars,
                 crashed>>

\* ----------------------------------------------------- New (collector.go)
\* The value of p.metricsBasicAuth: base64("user:pass"), without a scheme.
Base64Credentials == "dXNlcjpwYXNz"

\* collector.go:43-45: install the middleware on the router, if any.
UseMiddleware ==
  /\ pc = "opts" /\ ~crashed
  /\ pc' = "export"
  /\ middleware' = router
  /\ UNCHANGED <<regIdx, running, exportRoute>>
  /\ UNCHANGED <<cfgVars, metricVars, libVars, threadVars, reqVars, pushVars,
                 crashed>>

\* collector.go:47-58: serve the export handler on the export router.
ExportRoute ==
  /\ pc = "export" /\ ~crashed
  /\ pc' = "register"
  /\ exportRoute' = IF exportRouter THEN JoinPaths(metricsPath) ELSE <<>>
  /\ metricsBasicAuth' =
       IF exportRouter /\ accounts THEN Base64Credentials ELSE metricsBasicAuth
  /\ UNCHANGED <<router, exportRouter, accounts, PushGatewayURL, metrics,
                 metricsPath, jobName, LoggerTag, MetricsURL>>
  /\ UNCHANGED <<regIdx, running, middleware>>
  /\ UNCHANGED <<metricVars, libVars, threadVars, reqVars, pushVars, crashed>>

\* The fully qualified name prometheus builds from Subsystem and Name.
FqName(c) == <<c.subsystem, c.name>>

\* prometheus.Register refuses a collector whose descriptor is registered.
AlreadyRegistered(cid) ==
  \E r \in registry : FqName(heap[r]) = FqName(heap[cid])

\* registerMetrics, loop head: metric.Collector(p.jobName) (collector.go:165).
RegisterCollector ==
  /\ pc = "register" /\ ~crashed
  /\ regIdx <= Len(metrics) /\ tpc["main"] = "idle"
  /\ BeginCollector("main", metrics[regIdx], jobName)
  /\ UNCHANGED <<tret, rets, calls>>
  /\ UNCHANGED <<cfgVars, newVars, metricVars, libVars, reqVars, pushVars,
                 crashed>>

\* registerMetrics, loop body: prometheus.Register(c); an error is logged
\* and the loop goes on (collector.go:165-167).  Register calls c.Describe
\* from a goroutine of its own: a nil c is a nil dereference there, which
\* ends the process.
RegisterMetric ==
  /\ pc = "register" /\ ~crashed
  /\ tpc["main"] = "got"
  /\ LET c == tret["main"] IN
     /\ crashed' = (c = Nil)
     /\ registry' = IF c # Nil /\ ~AlreadyRegistered(c)
                    THEN registry \cup {c} ELSE registry
     /\ logged' = IF c # Nil /\ AlreadyRegistered(c)
                  THEN logged \cup {<<LoggerTag, "register", regIdx>>}
                  ELSE logged
  /\ regIdx' = regIdx + 1
  /\ tpc' = [tpc EXCEPT !["main"] = "idle"]
  /\ UNCHANGED <<pc, running, middleware, exportRoute>>
  /\ UNCHANGED <<tm, tjob, tret, rets, calls>>
  /\ UNCHANGED <<cfgVars, metricVars, reqVars, pushVars>>

\* registerMetrics returns when the loop is over.
RegisterDone ==
  /\ pc = "register" /\ ~crashed
  /\ regIdx > Len(metrics) /\ tpc["main"] = "idle"
  /\ pc' = "push"
  /\ UNCHANGED <<regIdx, running, middleware, exportRoute>>
  /\ UNCHANGED <<cfgVars, metricVars, libVars, threadVars, reqVars, pushVars,
                 crashed>>

\* collector.go:62-66 with startPush (153-161): start the ticker and the
\* push goroutine when a push gateway URL is configured; New returns.
StartPush ==
  /\ pc = "push" /\ ~crashed
  /\ pc' = "done"
  /\ IF PushConfigured
     THEN /\ pushTasks' = pushTasks + 1
          /\ ppc' = "wait"
     ELSE UNCHANGED <<pushTasks, ppc>>
  /\ UNCHANGED <<tick, tickNo, body, lastFetch, lastPost, fetchCount,
                 postCount, postedThisTick, wokeAt>>
  /\ UNCHANGED <<regIdx, running, middleware, exportRoute>>
  /\ UNCHANGED <<cfgVars, metricVars, libVars, threadVars, reqVars, crashed>>

\* ------------------------------------------------ HandlerFunc, Metric.Exec
\* The "Ignore self" test of the middleware (collector.go:116).
IsSelf(path) == path = metricsPath

\* The collector kinds on which a type assertion of ExecFn succeeds:
\* *prometheus.CounterVec is a concrete type; prometheus.Counter is an
\* interface (Inc, Add) that a gauge satisfies as well.
Implements(asserts) ==
  CASE asserts = "*CounterVec" -> {"counter_vec"}
    [] asserts = "Counter" -> {"counter", "gauge"}

\* ExecFnUpdates with the comparison of the threshold made inclusive.
ExecFnUpdatesFromThreshold(m, elapsed) ==
  MetricDef(m).slow < 0 \/ elapsed >= MetricDef(m).slow

\* ExecFn updates its collector: always, or for SlowRequestTotal when the
\* elapsed time exceeds the threshold (part_000:108).
ExecFnUpdates(m, elapsed) ==
  MetricDef(m).slow < 0 \/ elapsed > MetricDef(m).slow

\* ExecFn panics: the unchecked type assertion fails (a nil collector
\* included), or WithLabelValues gets a number of values that differs from
\* the number of label names of the vector.
ExecFnPanics(m, cid, elapsed) ==
  /\ ExecFnUpdates(m, elapsed)
  /\ \/ cid = Nil
     \/ heap[cid].kind \notin Implements(MetricDef(m).asserts)
     \/ /\ heap[cid].kind \in VecKinds
        /\ Len(heap[cid].labels) # MetricDef(m).nvals

Terminal == {"none", "skipped", "done", "panic"}

\* A request enters the middleware (collector.go:114-119): a request on
\* the metrics path returns at once, any other records its start time.
HandlerEnter(path) ==
  /\ middleware /\ (running \/ pc = "done") /\ ~crashed
  /\ req.pc \in Terminal /\ reqCount < MaxRequests
  /\ reqCount' = reqCount + 1
  /\ execs' = <<>>
  /\ req' = IF IsSelf(path)
            THEN [pc |-> "skipped", path |-> path, start |-> 0, idx |-> 0,
                  handled |-> FALSE]
            ELSE [pc |-> "next", path |-> path, start |-> now, idx |-> 0,
                  handled |-> FALSE]
  /\ UNCHANGED <<now, sizeVars>>
  /\ UNCHANGED <<cfgVars, newVars, metricVars, libVars, threadVars, pushVars,
                 crashed>>

\* c.Next(): the rest of the handler chain runs to completion
\* (collector.go:120).
HandlerNext ==
  /\ req.pc = "next" /\ ~crashed
  /\ req' = [req EXCEPT !.pc = "exec", !.idx = 1, !.handled = TRUE]
  /\ UNCHANGED <<execs, reqCount, now, sizeVars>>
  /\ UNCHANGED <<cfgVars, newVars, metricVars, libVars, threadVars, pushVars,
                 crashed>>

\* One iteration of the dispatch loop (collector.go:121-123):
\* metric.Exec(start, c), that is m.ExecFn(m.collector, start, c)
\* (part_000:30-32).  A panic of ExecFn unwinds the handler: the loop stops.
MetricExec ==
  /\ req.pc = "exec" /\ ~crashed
  /\ req.idx <= Len(metrics)
  /\ LET m == metrics[req.idx]
         cid == collector[m]
         elapsed == now - req.start IN
     /\ execs' = Append(execs, <<req.idx, req.start>>)
     /\ IF ExecFnPanics(m, cid, elapsed)
        THEN /\ req' = [req EXCEPT !.pc = "panic"]
             /\ heap' = heap
        ELSE /\ req' = [req EXCEPT !.idx = @ + 1]
             /\ heap' = IF ExecFnUpdates(m, elapsed)
                        THEN [heap EXCEPT ![cid].value = @ + 1]
                        ELSE heap
  /\ UNCHANGED <<collector, onceDone, onceMu, newMetricCalls>>
  /\ UNCHANGED <<reqCount, now, sizeVars>>
  /\ UNCHANGED <<cfgVars, newVars, libVars, threadVars, pushVars, crashed>>

\* The dispatch loop is over: the middleware returns.
HandlerReturn ==
  /\ req.pc = "exec" /\ ~crashed
  /\ req.idx > Len(metrics)
  /\ req' = [req EXCEPT !.pc = "done"]
  /\ UNCHANGED <<execs, reqCount, now, sizeVars>>
  /\ UNCHANGED <<cfgVars, newVars, metricVars, libVars, threadVars, pushVars,
                 crashed>>

\* Time passes while a request is in flight.
ClockTick ==
  /\ req.pc \in {"next", "exec"} /\ ~crashed
  /\ now - req.start < MaxClock
  /\ now' = now + 1
  /\ UNCHANGED <<req, execs, reqCount, sizeVars>>
  /\ UNCHANGED <<cfgVars, newVars, metricVars, libVars, threadVars, pushVars,
                 crashed>>

\* --------------------------------------- computeApproximateRequestSize
RECURSIVE SumLen(_)
\* The inner loop over the values of one header name (part_000:204-206).
SumLen(values) ==
  IF values = <<>> THEN 0 ELSE Len(Head(values)) + SumLen(Tail(values))

\* ContentLengthAdded with the test of the -1 sentinel left out.
ContentLengthAlways(cl) == cl

\* What the last statement adds for r.ContentLength (part_000:212-214).
ContentLengthAdded(cl) == IF cl # -1 THEN cl ELSE 0

\* computeApproximateRequestSize is called on r: s := 0, the URL path when
\* r.URL is not nil, then Method and Proto (part_000:195-201).
SizeStart(r) ==
  /\ spc = "idle" /\ ~crashed
  /\ r \in SizeRequests
  /\ rq' = r
  /\ sz' = (IF r.urlNil THEN 0 ELSE Len(r.path)) + Len(r.method) + Len(r.proto)
  /\ hdrLeft' = DOMAIN r.header
  /\ spc' = "headers"
  /\ UNCHANGED <<req, execs, reqCount, now>>
  /\ UNCHANGED <<cfgVars, newVars, metricVars, libVars, threadVars, pushVars,
                 crashed>>

\* One iteration of "for name, values := range r.Header", which visits the
\* names of the map in an order of its own (part_000:202-207).
SizeHeader(name) ==
  /\ spc = "headers" /\ ~crashed
  /\ name \in hdrLeft
  /\ sz' = sz + Len(name) + SumLen(rq.header[name])
  /\ hdrLeft' = hdrLeft \ {name}
  /\ UNCHANGED <<rq, spc>>
  /\ UNCHANGED <<req, execs, reqCount, now>>
  /\ UNCHANGED <<cfgVars, newVars, metricVars, libVars, threadVars, pushVars,
                 crashed>>

\* After the loop: the host, the content length, return s (part_000:208-215).
SizeReturn ==
  /\ spc = "headers" /\ ~crashed
  /\ hdrLeft = {}
  /\ sz' = sz + Len(rq.host) + ContentLengthAdded(rq.contentLength)
  /\ spc' = "done"
  /\ UNCHANGED <<rq, hdrLeft>>
  /\ UNCHANGED <<req, execs, reqCount, now>>
  /\ UNCHANGED <<cfgVars, newVars, metricVars, libVars, threadVars, pushVars,
                 crashed>>

\* ------------------------------------------------- push loop (startPush)
\* The Timeout of http.DefaultClient (collector.go:132) and of the
\* &http.Client{} of sendToPushGateway (collector.go:147): the zero value,
\* which net/http reads as "no timeout".
ClientTimeout == 0

\* The capacity of the channel ticker.C made by time.NewTicker.
TickerCap == 1

\* The Authorization value gin.BasicAuth(p.accounts) looks for: the scheme,
\* a space, the base64 of user:password.
BasicAuthExpected == "Basic " \o Base64Credentials

\* The comparison gin.BasicAuth makes with the header of a request.
BasicAuthAccepts(header) == header = BasicAuthExpected

\* The Authorization header of the request fetchMetrics sends
\* (collector.go:129-131); "" when it sets none.
AuthorizationSent == metricsBasicAuth

\* The export route of this instance is behind gin.BasicAuth and turns the
\* request of fetchMetrics down with status 401.
ExportRejects ==
  /\ exportRoute # <<>> /\ accounts
  /\ ~BasicAuthAccepts(AuthorizationSent)

\* What http.DefaultClient.Do can give fetchMetrics: no response (a
\* transport error), a response with an empty body, a response with a body,
\* the 401 of the export route.  An empty MetricsURL has no scheme: Do
\* always fails on it.
FetchOutcomes ==
  IF MetricsURL = "" THEN {"noresp"}
  ELSE IF ExportRejects THEN {"noresp", "unauthorized"}
  ELSE {"noresp", "empty", "snapshot"}

\* What client.Do can give sendToPushGateway for a request that was built.
PostOutcomes == {"ok", "err"}

\* A ticker channel that keeps every tick until it is received.
TickerQueues(pending) == pending + 1

\* The send of the ticker on ticker.C: a tick that finds the channel full
\* is dropped.
TickerDelivers(pending) ==
  IF pending < TickerCap THEN pending + 1 ELSE pending

\* The interval elapsed: the ticker fires (collector.go:154).
TickerFire ==
  /\ pushTasks > 0 /\ ~crashed
  /\ tickNo < MaxTicks
  /\ tickNo' = tickNo + 1
  /\ tick' = TickerDelivers(tick)
  /\ UNCHANGED <<pushTasks, ppc, body, lastFetch, lastPost, fetchCount,
                 postCount, postedThisTick, wokeAt>>
  /\ UNCHANGED <<cfgVars, newVars, metricVars, libVars, threadVars, reqVars,
                 crashed>>

\* for range ticker.C: the push goroutine receives a tick (collector.go:157).
PushWake ==
  /\ ppc = "wait" /\ tick > 0 /\ ~crashed
  /\ tick' = tick - 1
  /\ ppc' = "fetch"
  /\ wokeAt' = tickNo
  /\ lastFetch' = "none" /\ lastPost' = "none" /\ postedThisTick' = FALSE
  /\ UNCHANGED <<pushTasks, tickNo, body, fetchCount, postCount>>
  /\ UNCHANGED <<cfgVars, newVars, metricVars, libVars, threadVars, reqVars,
                 crashed>>

\* fetchMetrics (collector.go:127-136).  The errors of NewRequest, Do and
\* ReadAll are dropped; without a response, resp is nil and
\* "defer resp.Body.Close()" dereferences it: the goroutine panics and the
\* process ends.  The body of any response, a 401 included, is returned.
FetchMetrics(outcome) ==
  /\ ppc = "fetch" /\ ~crashed
  /\ outcome \in FetchOutcomes
  /\ fetchCount' = fetchCount + 1
  /\ lastFetch' = outcome
  /\ IF ~URLParses(<<MetricsURL>>) \/ outcome = "noresp"
     THEN /\ crashed' = TRUE
          /\ UNCHANGED <<ppc, body>>
     ELSE /\ crashed' = crashed
          /\ body' = outcome
          /\ ppc' = "send"
  /\ UNCHANGED <<pushTasks, tick, tickNo, lastPost, postCount,
                 postedThisTick, wokeAt>>
  /\ UNCHANGED <<cfgVars, newVars, metricVars, libVars, threadVars, reqVars>>

\* sendToPushGateway (collector.go:142-151).  The error of NewRequest is
\* overwritten: when the URL does not parse, req is nil and client.Do(req)
\* dereferences it.  An error of Do is logged with p.LoggerTag.
SendToPushGateway(outcome) ==
  /\ ppc = "send" /\ ~crashed
  /\ outcome \in PostOutcomes
  /\ IF MetricsURL = ""
     THEN /\ UNCHANGED <<lastPost, postCount, postedThisTick, logged, crashed>>
          /\ ppc' = "wait"
     ELSE IF ~URLParses(GetPushGatewayURL)
     THEN /\ lastPost' = "nobuild"
          /\ crashed' = TRUE
          /\ UNCHANGED <<ppc, postCount, postedThisTick, logged>>
     ELSE /\ lastPost' = outcome
          /\ postCount' = postCount + 1
          /\ postedThisTick' = TRUE
          /\ logged' = IF outcome = "err"
                       THEN logged \cup {<<LoggerTag, "push", fetchCount>>}
                       ELSE logged
          /\ ppc' = "wait"
          /\ crashed' = crashed
  /\ UNCHANGED registry
  /\ UNCHANGED <<pushTasks, tick, tickNo, body, lastFetch, fetchCount, wokeAt>>
  /\ UNCHANGED <<cfgVars, newVars, metricVars, threadVars, reqVars>>

\* The endpoint of the request in flight (the Do of fetchMetrics or of
\* sendToPushGateway) accepts the connection and never answers.  No timeout
\* is set on either client and the requests carry no context deadline: Do
\* does not return and the push goroutine stays in the call.
CallNeverAnswered ==
  /\ ppc \in {"fetch", "send"} /\ ~crashed
  /\ ppc = "fetch" => MetricsURL # "" /\ URLParses(<<MetricsURL>>)
  /\ ppc = "send" => MetricsURL # "" /\ URLParses(GetPushGatewayURL)
  /\ ClientTimeout = 0
  /\ ppc' = "blocked"
  /\ UNCHANGED <<pushTasks, tick, tickNo, body, lastFetch, lastPost,
                 fetchCount, postCount, postedThisTick, wokeAt>>
  /\ UNCHANGED <<cfgVars, newVars, metricVars, libVars, threadVars, reqVars,
                 crashed>>

\* -------------------------------------------------------- specifications
\* New, from the options to its return, metrics registered by the way.
NewSteps ==
  \/ UseMiddleware
  \/ ExportRoute
  \/ RegisterCollector
  \/ OnceDo("main") \/ OnceLock("main") \/ OnceRun("main")
  \/ OnceStore("main") \/ CollectorReturn("main")
  \/ RegisterMetric
  \/ RegisterDone
  \/ StartPush

\* Requests through the middleware of one instrumentation instance, which
\* the program builds before it starts the engine (as the example main does).
Next ==
  \/ WithRouter
  \/ WithExportRouter
  \/ \E s \in MetricsPaths : WithMetricsPath(s)
  \/ \E m \in MetricIds : WithMetrics(m)
  \/ NewSteps
  \/ \E path \in RequestPaths : HandlerEnter(path)
  \/ HandlerNext
  \/ MetricExec
  \/ HandlerReturn
  \/ ClockTick

Spec == Init /\ [][Next]_vars

\* The same, for a program that may start the engine before it calls New.
NextRace == EngineRun \/ Next

SpecRace == Init /\ [][NextRace]_vars

\* The push goroutine of one instrumentation instance.
NextPush ==
  \/ WithExportRouter
  \/ WithExportAccounts
  \/ \E m \in FewMetricIds : WithMetrics(m)
  \/ \E u \in PushURLs : WithPushGatewayUrl(u)
  \/ \E u \in PushURLs : WithPushPushGatewayURL(u)
  \/ \E u \in LocalURLs : WithMetricsURL(u)
  \/ \E j \in JobNames : WithJobName(j)
  \/ \E tag \in LoggerTags : WithLoggerTag(tag)
  \/ NewSteps
  \/ TickerFire
  \/ PushWake
  \/ \E o \in {"noresp", "empty", "snapshot", "unauthorized"} : FetchMetrics(o)
  \/ \E o \in PostOutcomes : SendToPushGateway(o)
  \/ CallNeverAnswered

SpecPush == Init /\ [][NextPush]_vars

\* computeApproximateRequestSize on one request.
NextSize ==
  \/ \E r \in SizeRequests : SizeStart(r)
  \/ \E name \in {"Accept", "X-Id"} : SizeHeader(name)
  \/ SizeReturn

SpecSize == Init /\ [][NextSize]_vars

\* Threads that call Collector on the Metric values concurrently.
NextOnce ==
  \E t \in Callers :
    \/ \E m \in FewMetricIds, j \in JobNames : CallCollector(t, m, j)
    \/ OnceDo(t)
    \/ OnceLock(t)
    \/ OnceRun(t)
    \/ OnceStore(t)
    \/ CollectorReturn(t)

SpecOnce == Init /\ [][NextOnce]_vars

\* ----------------------------------------------------------------- claims
\* The request in flight is over: the middleware returned or was unwound.
Finished == req.pc \in {"done", "panic"}

\* The request in flight is on the path the export handler is served on.
OnExportPath == exportRoute # <<>> /\ req.path = exportRoute

\* The positions of p.metrics whose Exec was invoked for the request.
Invoked == {execs[k][1] : k \in 1..Len(execs)}

\* registerMetrics is done with position i of p.metrics.
Registered(i) == i \in 1..Len(metrics) /\ regIdx > i

\* registerMetrics reported an error for position i of p.metrics.
RegisterError(i) == <<LoggerTag, "register", i>> \in logged

\* C1: under concurrent first calls of Collector on a Metric, NewMetric
\* runs at most once for that Metric, and every call that returned, the
\* first ones and the later ones, returned the one cached collector.
C1_CollectorOnce ==
  \A m \in MetricIds :
    /\ newMetricCalls[m] <= 1
    /\ Cardinality(rets[m]) <= 1
    /\ rets[m] # {} => newMetricCalls[m] = 1 /\ rets[m] = {collector[m]}

\* Two threads raced on the first call: t2 passed the fast path before the
\* Once was done and holds the mutex now that it is done, while t1 has
\* already returned the collector it built.
C1_Witness ==
  /\ tm["t1"] = tm["t2"]
  /\ tpc["t2"] = "slow" /\ onceDone[tm["t2"]]
  /\ tpc["t1"] = "idle" /\ calls["t1"] = 1 /\ calls["t2"] = 1
  /\ tret["t1"] # Nil /\ tret["t1"] = collector[tm["t1"]]

\* C2: no Exec runs for a request whose URL path is the path on which the
\* export handler is served.
C2_ExportNotCounted == OnExportPath => execs = <<>>

\* C3: when a request that is not to the export path is over, the Exec of
\* every metric of p.metrics was invoked, whatever the others did.
C3_ExecIsolated ==
  (Finished /\ ~OnExportPath) => Invoked = 1..Len(metrics)

\* C4: for a request that is not to the export path, Exec runs only after
\* the wrapped handler completed, and when the request is over each metric's
\* Exec was invoked exactly once, in the order of p.metrics, all with the
\* start time recorded at entry.
C4_DispatchInOrder ==
  /\ execs # <<>> => req.handled
  /\ (Finished /\ ~OnExportPath) =>
       execs = [i \in 1..Len(metrics) |-> <<i, req.start>>]

\* C5: on a tick whose fetch got no response or no body, no POST is
\* attempted and the process keeps running (so that the loop can fetch
\* again on the next tick).
C5_FetchFailureSkipsPost ==
  lastFetch \in {"noresp", "empty"} => ~crashed /\ ~postedThisTick

\* C6: on a tick whose POST failed (the request could not be built, or the
\* transport returned an error), the error is logged with the configured
\* tag and the process keeps running (so that the loop goes on).
C6_PostFailureLogged ==
  lastPost \in {"nobuild", "err"} =>
    ~crashed /\ <<LoggerTag, "push", fetchCount>> \in logged

\* C7: New starts the push task if and only if the push gateway URL is not
\* empty, it starts at most one, and without a push URL no fetch and no
\* POST ever happens.
C7_PushIffURL ==
  /\ pushTasks <= 1
  /\ pushTasks = 1 => PushGatewayURL # ""
  /\ pc = "done" => (pushTasks = 1 <=> PushGatewayURL # "")
  /\ PushGatewayURL = "" => fetchCount = 0 /\ postCount = 0 /\ tickNo = 0

\* New returned with a push URL, and the one push task has fetched and posted.
C7_Witness ==
  /\ pc = "done" /\ PushGatewayURL # "" /\ pushTasks = 1
  /\ fetchCount > 0 /\ postCount > 0

\* C8: once two metrics of the same name are registered under the job name
\* of the instance and New has not failed, every update made by the Exec of
\* either goes to one collector that both share and that is exported.
C8_SameNameShared ==
  \A i, j \in 1..Len(metrics) :
    (i < j /\ MetricDef(metrics[i]).Name = MetricDef(metrics[j]).Name
       /\ Registered(j) /\ ~crashed) =>
      \A k \in {i, j} :
        LET c == collector[metrics[k]] IN
        (c # Nil /\ heap[c].value > 0) =>
          collector[metrics[i]] = collector[metrics[j]] /\ c \in registry

\* C9: a metric whose Type is none of the eight kinds is reported as an
\* error when registerMetrics handles it, and its Exec is never run (no
\* absent collector is left for a later Exec).
C9_UnknownKindRejected ==
  /\ \A i \in 1..Len(metrics) :
       (Registered(i) /\ MetricDef(metrics[i]).Type \notin SupportedKinds)
         => RegisterError(i)
  /\ \A i \in Invoked : MetricDef(metrics[i]).Type \in SupportedKinds

\* C10: a metric of a vector kind with no label name is reported as an
\* error when registerMetrics handles it, and its Exec is never run.
C10_EmptyVecRejected ==
  /\ \A i \in 1..Len(metrics) :
       (Registered(i) /\ MetricDef(metrics[i]).Type \in VecKinds
          /\ MetricDef(metrics[i]).Args = <<>>)
         => RegisterError(i)
  /\ \A i \in Invoked :
       ~(MetricDef(metrics[i]).Type \in VecKinds
           /\ MetricDef(metrics[i]).Args = <<>>)

\* The cached collector of Metric m is of a kind on which the type
\* assertion of m's ExecFn fails.
KindMismatch(m) ==
  /\ collector[m] # Nil
  /\ heap[collector[m]].kind \notin Implements(MetricDef(m).asserts)

\* C11: an Exec whose ExecFn expects another kind of collector than the
\* cached one returns normally: it never unwinds the request.
C11_MismatchRecovered ==
  req.pc = "panic" => ~KindMismatch(metrics[req.idx])

\* C12: an Exec of the SlowRequestTotal metric adds exactly one to its
\* counter when the time elapsed since the start of the request strictly
\* exceeds the threshold, and leaves the counter as it is otherwise.
C12_SlowCountsStrictly ==
  [][(/\ req.pc = "exec" /\ req.idx <= Len(metrics)
      /\ metrics[req.idx] = "SlowRequestTotal"
      /\ execs' # execs)
     => LET c == collector["SlowRequestTotal"] IN
        /\ c # Nil
        /\ heap'[c].value =
             heap[c].value
               + (IF now - req.start > SlowRequestTotalDef.slow THEN 1 ELSE 0)]_vars

\* Two requests went through the SlowRequestTotal metric alone and exactly
\* one of them was counted: one was slower than the threshold, one was not.
C12_Witness ==
  /\ metrics = <<"SlowRequestTotal">>
  /\ reqCount = 2 /\ req.pc = "done"
  /\ heap[collector["SlowRequestTotal"]].value = 1

RECURSIVE HeaderLen(_, _)
\* The lengths of the names in ns and of all their values in header h.
HeaderLen(h, ns) ==
  IF ns = {} THEN 0
  ELSE LET n == CHOOSE x \in ns : TRUE IN
       Len(n) + SumLen(h[n]) + HeaderLen(h, ns \ {n})

\* The sum of the lengths that do not depend on the content length.
FixedSize(r) ==
  (IF r.urlNil THEN 0 ELSE Len(r.path)) + Len(r.method) + Len(r.proto)
    + HeaderLen(r.header, DOMAIN r.header) + Len(r.host)

\* C13 as stated: the size returned is the sum of the path, method,
\* protocol, header and host lengths, plus the content length exactly when
\* it is not negative; the example request gives 14.
C13_SizeNonNegativeLength ==
  spc = "done" =>
    /\ sz = FixedSize(rq)
              + (IF rq.contentLength >= 0 THEN rq.contentLength ELSE 0)
    /\ rq = ExampleRequest => sz = 14

\* C13 amended: the content length is added exactly when it is not -1, so
\* that -1 adds nothing and any other value, negative ones included, is
\* added as it is; the example request gives 14.
C13_SizeSentinelLength ==
  spc = "done" =>
    /\ sz = FixedSize(rq)
              + (IF rq.contentLength = -1 THEN 0 ELSE rq.contentLength)
    /\ rq = ExampleRequest => sz = 14

\* The size of a request with two header names and content length -2 was
\* returned: the fixed lengths less two.
C13_Witness ==
  /\ spc = "done" /\ rq.contentLength = -2
  /\ DOMAIN rq.header = {"Accept", "X-Id"}
  /\ sz = FixedSize(rq) - 2

\* C14: ticks that fire while the push goroutine is still at the work of an
\* earlier tick are dropped, not queued: at most one tick is ever pending,
\* so the loop has no backlog to run when the slow work ends.
C14_TicksDropped ==
  tick \in {0, 1}

\* The work of one tick is still going on (past the fetch, before the POST)
\* while the ticker fired twice since the goroutine took that tick: one of
\* the two is pending.
C14_Witness ==
  /\ ppc = "send" /\ tickNo - wokeAt >= 2
  /\ tick = 1

\* C15: an HTTP call of the forwarder that the endpoint never answers is
\* bounded: the push goroutine is never left in a call that cannot return
\* (after which no later tick would fetch or push).
C15_CallsBounded ==
  ppc # "blocked"

\* C18: with export credentials configured, the GET of fetchMetrics is
\* accepted by the Basic-Auth check of the export route: no body handed to
\* the POST is the response of a rejected (401) fetch.
C18_FetchAuthorized ==
  (metricsBasicAuth # "" /\ postedThisTick) => lastFetch # "unauthorized"

\* C19: with a push gateway URL and an empty MetricsURL, a tick of the push
\* loop sends no POST and leaves the process running.
C19_EmptyMetricsURLNoOp ==
  (PushGatewayURL # "" /\ MetricsURL = "" /\ fetchCount > 0) =>
    ~crashed /\ postCount = 0

\* C16: every collector returned by Collector(j) on a Metric carries the
\* job name j of the call that returned it as its namespace.
C16_NamespacedByCall ==
  \A t \in Callers :
    (tpc[t] = "idle" /\ calls[t] > 0 /\ tret[t] # Nil)
      => heap[tret[t]].subsystem = tjob[t]

\* C17: while New runs on a router that is already serving, the middleware
\* never calls the Exec of a metric whose Once has not yet constructed and
\* stored the collector.
C17_ExecAfterCollector ==
  [][(/\ req.pc = "exec" /\ req.idx <= Len(metrics)
      /\ execs' # execs)
     => /\ onceDone[metrics[req.idx]]
        /\ collector[metrics[req.idx]] # Nil]_vars

====
